---- MODULE Spec2Model ----
(***************************************************************************)
(* fmriprepgr/reports.py: parsing of one fmriprep subject report           *)
(* (parse_report, _unique_retrieval), rendering of one figure snippet      *)
(* (_make_report_snippet) and the aggregation driver (make_report).        *)
(*                                                                         *)
(* Two specifications share the definitions below:                         *)
(*   SpecParse  one call of parse_report on one report document, one step  *)
(*              per iteration of its loop over the figure elements;        *)
(*   Spec       runs of make_report on one output directory, one step per  *)
(*              discovered report and one per consolidated file written.   *)
(***************************************************************************)
EXTENDS Integers, Sequences, FiniteSets, TLC

VARIABLES
  \* ---- parse_report (SpecParse) ----
  doc,              \* the parsed document (soup): sequence of top-level nodes
  fdi,              \* number of entries of file_divs already looped over
  prev_run_title,   \* parse_report's local prev_run_title
  report_elements,  \* parse_report's local list of row dicts
  ppc,              \* "loop" | "returned" | "raised"
  parsed,           \* the returned DataFrame (sequence of rows), <<>> before
  \* ---- make_report (Spec) ----
  disk,             \* the report documents under the output root, by path
  links,            \* subject -> target of group/sub-<id>/figures, or NoLink
  files,            \* consolidated file name -> snippets (the group directory)
  reports_per_page, \* the run's page size, or None
  path_to_figures,  \* the run's path template
  pc,               \* "loop" | "write" | "done" | "raised"
  ri,               \* number of entries of report_paths already looped over
  reports,          \* make_report's local list of DataFrames
  todo,             \* (report_type, chunk) groups not yet written, in order
  written,          \* file names written by the current run, in order
  err               \* the exception that ended the current run, or NoErr

pvars == <<doc, fdi, prev_run_title, report_elements, ppc, parsed>>
mvars == <<disk, links, files, reports_per_page, path_to_figures, pc, ri,
           reports, todo, written, err>>
vars == <<doc, fdi, prev_run_title, report_elements, ppc, parsed,
          disk, links, files, reports_per_page, path_to_figures, pc, ri,
          reports, todo, written, err>>

(***************************************************************************)
(* Bounds of the model.                                                    *)
(***************************************************************************)
\* elements (other than containers) of a structured report document
MaxNodes == 4
\* figures of a report document made of figures only
MaxFigs == 2
\* largest page size tried
MaxPage == 2

(***************************************************************************)
(* Python values.  A value is tagged with its type, so that == between     *)
(* values of different types is False, as in Python.                       *)
(***************************************************************************)
NaN == [t |-> "nan"]
None == [t |-> "none"]
StrV(s) == [t |-> "str", v |-> s]
IntV(n) == [t |-> "int", v |-> n]
BoolV(b) == [t |-> "bool", v |-> b]
ListV(q) == [t |-> "list", v |-> q]

PyEq(a, b) == a.t = b.t /\ a.t \notin {"nan"} /\ (a.t = "none" \/ a.v = b.v)
IsNull(a) == a.t \in {"nan", "none"}
NotNull(a) == ~IsNull(a)

\* dict update and filtering
Put(d, k, v) == [x \in (DOMAIN d) \cup {k} |-> IF x = k THEN v ELSE d[x]]
Without(d, ks) == [x \in (DOMAIN d) \ ks |-> d[x]]
EmptyDict == [x \in {} |-> NaN]

RECURSIVE Reverse(_)
Reverse(q) == IF q = <<>> THEN <<>> ELSE Append(Reverse(Tail(q)), Head(q))

RECURSIVE Concat(_)
Concat(qq) == IF qq = <<>> THEN <<>> ELSE Head(qq) \o Concat(Tail(qq))

SeqsUpTo(S, n) == UNION {[1..m -> S] : m \in 0..n}

(***************************************************************************)
(* Report documents.  A document is the parsed tree of one report: a       *)
(* sequence of top-level nodes, each a text node, an element without       *)
(* children, or a <div> holding such nodes.  An element carries its tag    *)
(* name, its class attribute as the parser gives it (a list of class       *)
(* tokens; hascls is FALSE when the attribute is absent), its text and,    *)
(* for a figure, the file its src/data attribute names.                    *)
(***************************************************************************)
\* A path is modelled by the sequence of its parts (pathlib's Path.parts).
NoSrc == <<>>

Element(name, cls, text, src, kids) ==
  [kind |-> "tag", name |-> name, hascls |-> cls # <<>>, cls |-> cls,
   text |-> text, src |-> src, kids |-> kids]

TextNode == [kind |-> "str", name |-> "", hascls |-> FALSE, cls |-> <<>>,
             text |-> " ", src |-> NoSrc, kids |-> <<>>]
Title(t) == Element("h3", <<"run-title">>, t, NoSrc, <<>>)
CapP(t) == Element("p", <<"elem-caption">>, t, NoSrc, <<>>)
CapDiv(t) == Element("div", <<"elem-caption">>, t, NoSrc, <<>>)
Fig(src) == Element("object", <<"svg-reportlet">>, "", src, <<>>)
Div(kids) == Element("div", <<>>, "", NoSrc, kids)

\* A figure file name, by the entities it spells:
\* sub-<sub>[_run-<run>][_space-<space>][_desc-<desc>][_<suffix>].svg
\* ("" = not in the name)
FigFile(sub, desc, suffix, space) ==
  [sub |-> sub, run |-> "", desc |-> desc, suffix |-> suffix, space |-> space]
\* The figure's path as the report names it: figures/<file name>
FigPath(file) == <<"figures", file>>
FigFiles == {FigFile("01", d, s, p) : d \in {"", "brain"}, s \in {"", "dseg", "bold"},
                                      p \in {"", "MNI"}}
BrainFig == Fig(FigPath(FigFile("01", "brain", "T1w", "")))

TitleLeaves == {Title("Run 1"), Title("Run 2"), BrainFig}
CaptionLeaves == {CapP("caption A"), CapDiv("caption B"), BrainFig}

\* Where a leaf goes: at top level, first in a new <div>, or next in the open <div>.
Places == {"top", "open", "cont"}
WellPlaced(pl) ==
  \A j \in DOMAIN pl : pl[j] = "cont" => (j > 1 /\ pl[j - 1] \in {"open", "cont"})

RECURSIVE Build(_, _)
Build(ls, pl) ==
  IF ls = <<>> THEN <<>>
  ELSE LET n == Len(ls)
           rest == Build(SubSeq(ls, 1, n - 1), SubSeq(pl, 1, n - 1))
       IN CASE pl[n] = "top" -> Append(rest, ls[n])
            [] pl[n] = "open" -> Append(rest, Div(<<ls[n]>>))
            [] OTHER -> [rest EXCEPT ![Len(rest)].kids = Append(@, ls[n])]

StructDocs(leaves, n) ==
  {Build(ls, pl) : <<ls, pl>> \in
     {x \in UNION {[1..m -> leaves] \X [1..m -> Places] : m \in 0..n} :
        WellPlaced(x[2])}}

FlatDocs(figfiles, n) ==
  {[j \in DOMAIN q |-> Fig(FigPath(q[j]))] : q \in SeqsUpTo(figfiles, n)}

\* Two reports with titles, captions and the text between the tags.
SampleDocs ==
  {<<Title("Run 1"), TextNode,
     Div(<<CapP("caption A"), TextNode, BrainFig, TextNode>>), TextNode,
     Div(<<CapDiv("caption B"), TextNode, CapP("caption A"), CapP("caption B"),
           TextNode, BrainFig>>),
     Title("Run 2"), CapDiv("caption A"), TextNode, BrainFig>>,
   <<Div(<<Title("Run 1"), CapDiv("caption A"), TextNode, CapDiv("caption B"),
           BrainFig>>),
     TextNode,
     Div(<<Title("Run 1"), Title("Run 2"), TextNode, BrainFig>>),
     Div(<<TextNode, BrainFig>>)>>}

Docs == StructDocs(TitleLeaves, MaxNodes) \cup StructDocs(CaptionLeaves, MaxNodes)
          \cup FlatDocs(FigFiles, MaxFigs) \cup SampleDocs

(***************************************************************************)
(* The parser library's tree queries.                                      *)
(***************************************************************************)
\* Positions <<top, kid>> of the tree in document order; kid = 0: top level.
PositionsOf(d) ==
  Concat([j \in DOMAIN d |-> <<<<j, 0>>>> \o [c \in DOMAIN d[j].kids |-> <<j, c>>]])
NodeAt(d, pos) == IF pos[2] = 0 THEN d[pos[1]] ELSE d[pos[1]].kids[pos[2]]

\* The children of the element's parent (the whole document at top level).
ParentKids(d, pos) == IF pos[2] = 0 THEN d ELSE d[pos[1]].kids
\* All descendants of the element's parent, in document order.
ParentDescendants(d, pos) ==
  IF pos[2] = 0 THEN [j \in DOMAIN PositionsOf(d) |-> NodeAt(d, PositionsOf(d)[j])]
  ELSE d[pos[1]].kids

HasToken(node, c) == \E j \in DOMAIN node.cls : node.cls[j] = c
\* findAll(name, attrs={'class': c}): the matching tags, in document order
FindAll(nodes, names, c) ==
  SelectSeq(nodes, LAMBDA x : x.kind = "tag" /\ x.name \in names /\ HasToken(x, c))

\* soup.findAll(attrs={'class':'svg-reportlet'}), as positions
FileDivs(d) ==
  SelectSeq(PositionsOf(d),
            LAMBDA pos : NodeAt(d, pos).kind = "tag" /\ HasToken(NodeAt(d, pos), "svg-reportlet"))

\* fd.previous_siblings: nearest first
PreviousSiblings(d, pos) ==
  LET sibs == ParentKids(d, pos)
      me == IF pos[2] = 0 THEN pos[1] ELSE pos[2]
  IN Reverse(SubSeq(sibs, 1, me - 1))

\* tag.get('class', ''): the list of class tokens, or the default
GetClass(node) == IF node.hascls THEN ListV(node.cls) ELSE StrV("")

\* layout.parse_file_entities(fig_path, ...): the entities the file name holds
ParseFileEntities(path) ==
  LET file == path[Len(path)]
      all == [subject |-> StrV(file.sub), run |-> StrV(file.run),
              desc |-> StrV(file.desc),
              suffix |-> StrV(file.suffix), space |-> StrV(file.space),
              extension |-> StrV(".svg")]
  IN [k \in {x \in DOMAIN all : all[x].v # ""} |-> all[k]]

(***************************************************************************)
(* _unique_retrieval and one iteration of parse_report's loop.             *)
(***************************************************************************)
Return(v) == [raised |-> FALSE, exc |-> "", value |-> v]
Raise(e) == [raised |-> TRUE, exc |-> e, value |-> None]

UniqueRetrieval(element_list) ==
  IF Len(element_list) > 1 THEN Raise("ValueError")
  ELSE IF Len(element_list) = 0 THEN Raise("ValueError")
  ELSE Return(StrV(element_list[1].text))

\* The test of line 55 on one previous sibling.
IsCaptionSibling(prev) ==
  prev.kind = "tag" /\ prev.hascls /\ PyEq(GetClass(prev), StrV("elem-caption"))

\* for prev in fd.previous_siblings: ... row['elem_caption'] = prev.text
\* (every matching sibling assigns; the loop has no break)
RECURSIVE ScanPreviousSiblings(_, _)
ScanPreviousSiblings(row, sibs) ==
  IF sibs = <<>> THEN row
  ELSE ScanPreviousSiblings(
         IF IsCaptionSibling(Head(sibs))
           THEN Put(row, "elem_caption", StrV(Head(sibs).text))
           ELSE row,
         Tail(sibs))

RunTitles(d, pos) == FindAll(ParentDescendants(d, pos), {"h3"}, "run-title")
ElemCaptions(d, pos) == FindAll(ParentDescendants(d, pos), {"p"}, "elem-caption")

\* Faulty variant of ResolveRunTitle: a found title is not remembered.
ResolveRunTitleNoCarry(d, pos, prev) ==
  LET r == UniqueRetrieval(RunTitles(d, pos))
  IN IF ~r.raised THEN [run_title |-> r.value, prev |-> prev]
     ELSE [run_title |-> prev, prev |-> prev]

\* Lines 41-46: the row's run_title and the new prev_run_title.
ResolveRunTitle(d, pos, prev) ==
  LET r == UniqueRetrieval(RunTitles(d, pos))
  IN IF ~r.raised THEN [run_title |-> r.value, prev |-> r.value]
     ELSE [run_title |-> prev, prev |-> prev]

\* Lines 50-56: the row with its elem_caption, when one is found.
ResolveCaption(d, pos, row) ==
  LET r == UniqueRetrieval(ElemCaptions(d, pos))
  IN IF ~r.raised THEN Put(row, "elem_caption", r.value)
     ELSE ScanPreviousSiblings(row, PreviousSiblings(d, pos))

\* Lines 33-58: the row of the figure at pos, and the new prev_run_title.
FigureRow(d, pos, prev) ==
  LET fig_path == NodeAt(d, pos).src
      ents == ParseFileEntities(fig_path)
      row1 == Put(Put(ents, "path", StrV(fig_path)),
                  "filename", StrV(fig_path[Len(fig_path)]))
      t == ResolveRunTitle(d, pos, prev)
      row2 == Put(row1, "run_title", t.run_title)
  IN [row |-> ResolveCaption(d, pos, row2), prev |-> t.prev]

(***************************************************************************)
(* Lines 59-67: the table of the rows and its report_type column.          *)
(***************************************************************************)
Columns(rows) == UNION {DOMAIN rows[j] : j \in DOMAIN rows}
\* pd.DataFrame(rows): every row has every column, NaN where its dict had no key
DataFrame(rows) ==
  [j \in DOMAIN rows |->
     [c \in Columns(rows) |-> IF c \in DOMAIN rows[j] THEN rows[j][c] ELSE NaN]]

\* The report_type of one row of a table with these columns.
ReportType(row, columns) ==
  LET t1 == row["desc"]
      t2 == IF IsNull(t1) /\ PyEq(row["suffix"], StrV("dseg")) THEN row["suffix"] ELSE t1
      t3 == IF "space" \in columns /\ IsNull(t2) /\ NotNull(row["space"])
              THEN row["space"] ELSE t2
  IN t3

\* report_elements.desc and report_elements.suffix are attribute accesses:
\* they raise when the table has no such column.
AddReportType(df) ==
  LET columns == IF df = <<>> THEN {} ELSE DOMAIN df[1]
  IN IF "desc" \notin columns THEN Raise("AttributeError")
     ELSE IF "suffix" \notin columns THEN Raise("AttributeError")
     ELSE Return([j \in DOMAIN df |-> Put(df[j], "report_type", ReportType(df[j], columns))])

\* parse_report as a function of the document.
RECURSIVE ParseRows(_, _, _, _)
ParseRows(d, k, prev, rows) ==
  IF k > Len(FileDivs(d)) THEN rows
  ELSE LET s == FigureRow(d, FileDivs(d)[k], prev)
       IN ParseRows(d, k + 1, s.prev, Append(rows, s.row))

ParseReport(d) == AddReportType(DataFrame(ParseRows(d, 1, NaN, <<>>)))

(***************************************************************************)
(* SpecParse: parse_report on one document.                                *)
(***************************************************************************)
NoLink == <<>>
NoErr == ""
IdleReport ==
  /\ disk = <<>> /\ links = <<>> /\ files = <<>>
  /\ reports_per_page = None /\ path_to_figures = ""
  /\ pc = "idle" /\ ri = 0 /\ reports = <<>> /\ todo = <<>>
  /\ written = <<>> /\ err = NoErr

InitParse ==
  /\ doc \in Docs
  /\ fdi = 0
  /\ prev_run_title = NaN
  /\ report_elements = <<>>
  /\ ppc = "loop"
  /\ parsed = <<>>
  /\ IdleReport

\* One iteration of the loop of line 32.
ParseFigure ==
  /\ ppc = "loop"
  /\ fdi < Len(FileDivs(doc))
  /\ LET s == FigureRow(doc, FileDivs(doc)[fdi + 1], prev_run_title)
     IN /\ report_elements' = Append(report_elements, s.row)
        /\ prev_run_title' = s.prev
  /\ fdi' = fdi + 1
  /\ UNCHANGED <<doc, ppc, parsed>>
  /\ UNCHANGED mvars

\* Lines 59-67, after the loop: the table is returned, or the call raises.
ParseFinish ==
  /\ ppc = "loop"
  /\ fdi = Len(FileDivs(doc))
  /\ LET r == AddReportType(DataFrame(report_elements))
     IN /\ ppc' = IF r.raised THEN "raised" ELSE "returned"
        /\ parsed' = IF r.raised THEN <<>> ELSE r.value
  /\ UNCHANGED <<doc, fdi, prev_run_title, report_elements>>
  /\ UNCHANGED mvars

NextParse == ParseFigure \/ ParseFinish

SpecParse == InitParse /\ [][NextParse]_vars

(***************************************************************************)
(* Claims about parse_report (SpecParse).                                  *)
(***************************************************************************)
\* The figure-marker elements of the document, in document order.
FigureElements == [j \in DOMAIN FileDivs(doc) |-> NodeAt(doc, FileDivs(doc)[j])]
FileOf(fig) == fig.src[Len(fig.src)]
Finished == ppc # "loop"

\* C1: for a document with n figure-marker elements, n >= 0, parse_report
\* returns exactly n records and the i-th record describes the i-th
\* figure-marker element in document order.
C1_OneRecordPerFigure ==
  Finished =>
    /\ ppc = "returned"
    /\ Len(parsed) = Len(FigureElements)
    /\ \A j \in DOMAIN parsed : parsed[j]["path"] = StrV(FigureElements[j].src)

\* C2: a figure whose container holds exactly one title-marked heading gets
\* that heading's text as run_title, and the text becomes the running
\* default; a figure whose container holds none or several gets the
\* run_title of the previous record (unset for the first), and the running
\* default stays as it was.
C2_RunTitleInherited ==
  /\ \A j \in DOMAIN report_elements :
       LET hs == RunTitles(doc, FileDivs(doc)[j])
       IN report_elements[j]["run_title"] =
            IF Len(hs) = 1 THEN StrV(hs[1].text)
            ELSE IF j = 1 THEN NaN
            ELSE report_elements[j - 1]["run_title"]
  /\ prev_run_title =
       IF report_elements = <<>> THEN NaN
       ELSE report_elements[Len(report_elements)]["run_title"]

\* C2 witness: a figure after the first whose container holds several
\* headings has taken over the resolved title of the record before it.
C2_Witness ==
  \E j \in DOMAIN report_elements :
    /\ j > 1
    /\ Len(RunTitles(doc, FileDivs(doc)[j])) > 1
    /\ report_elements[j]["run_title"].t = "str"
    /\ report_elements[j]["run_title"] = report_elements[j - 1]["run_title"]

\* The preceding siblings of the figure that carry the caption class, nearest first.
CaptionSiblings(pos) ==
  SelectSeq(PreviousSiblings(doc, pos),
            LAMBDA x : x.kind = "tag" /\ HasToken(x, "elem-caption"))

\* C3: with exactly one caption paragraph in its container a figure's
\* elem_caption is that paragraph's text; with none or several it is the text
\* of the nearest preceding sibling carrying the class elem-caption, and it
\* is unset only when no preceding sibling carries that class.
C3_CaptionFallback ==
  \A j \in DOMAIN report_elements :
    LET pos == FileDivs(doc)[j]
        caps == ElemCaptions(doc, pos)
        near == CaptionSiblings(pos)
        row == report_elements[j]
    IN IF Len(caps) = 1
         THEN "elem_caption" \in DOMAIN row /\ row["elem_caption"] = StrV(caps[1].text)
       ELSE IF near # <<>>
         THEN "elem_caption" \in DOMAIN row /\ row["elem_caption"] = StrV(near[1].text)
       ELSE "elem_caption" \notin DOMAIN row

\* The fallback chain on the entities a figure's file name spells.
ChainOf(file) ==
  IF file.desc # "" THEN StrV(file.desc)
  ELSE IF file.suffix = "dseg" THEN StrV("dseg")
  ELSE IF file.space # "" THEN StrV(file.space)
  ELSE NaN

\* C4: parse_report returns normally for every combination of set and unset
\* description, suffix and space among the figures of a document, and every
\* record's report_type is the description when set, else 'dseg' when the
\* suffix is 'dseg', else the space when set, else unset.
C4_ReportTypeChain ==
  (Finished /\ FigureElements # <<>>) =>
    /\ ppc = "returned"
    /\ \A j \in DOMAIN parsed :
         parsed[j]["report_type"] = ChainOf(FileOf(FigureElements[j]))

(***************************************************************************)
(* _make_report_snippet.  The snippet is modelled by its parts: the id of  *)
(* its <div>, the JSON record (subj_qc), the header's label/value pairs,   *)
(* the idx its controls are keyed by and the figure reference.             *)
(***************************************************************************)
id_blacklist == {"path", "run_title", "elem_caption", "extension", "filename"}
header_blacklist == id_blacklist \cup {"desc", "report_type", "idx", "chunk"}

\* Faulty variant of IdEnts: the JSON record is filtered with the header's blacklist.
IdEntsHeaderBlacklist(row) ==
  Put(Without(row, header_blacklist), "been_on_screen", BoolV(FALSE))

\* Line 109-111: the JSON record.
IdEnts(row) == Put(Without(row, id_blacklist), "been_on_screen", BoolV(FALSE))
\* Line 112-114: the header's entries (pd.notnull ones only).
HeaderVals(row) ==
  LET header_ents == Without(row, header_blacklist)
  IN [k \in {x \in DOMAIN header_ents : NotNull(header_ents[x])} |-> header_ents[k]]

MakeReportSnippet(row) ==
  [div_id |-> <<row["idx"], row["filename"]>>,
   subj_qc |-> IdEnts(row),
   header |-> HeaderVals(row),
   idx |-> row["idx"],
   data |-> row["path"]]

(***************************************************************************)
(* make_report.                                                            *)
(***************************************************************************)
\* The report paths that may exist under the output root.  rank orders the
\* paths as sorted() does; figures says that 'figures' is one of the parts.
\*   sub-01.html, sub-01/figures/sub-01_report.html, sub-02.html
ReportPath(rank, subject, figures) ==
  [rank |-> rank, subject |-> subject, figures |-> figures]
Sub01Html == ReportPath(1, "01", FALSE)
Sub01FiguresHtml == ReportPath(2, "01", TRUE)
Sub02Html == ReportPath(3, "02", FALSE)
SubjectReports == {Sub01Html, Sub02Html}
Subjects == {"01", "02"}

\* The figures a subject's report may show: one of type brain, one of type
\* dseg, one without a type.  The j-th figure of a report is of run j, so
\* that the figures of one report are different files.
ReportFigFiles(sub) ==
  {FigFile(sub, "brain", "T1w", ""), FigFile(sub, "", "dseg", "MNI"),
   FigFile(sub, "", "bold", "")}
RunName == <<"1", "2", "3", "4", "5", "6">>
ReportDocs(sub) ==
  {[j \in DOMAIN q |-> Fig(FigPath([q[j] EXCEPT !.run = RunName[j]]))] :
     q \in SeqsUpTo(ReportFigFiles(sub), MaxFigs)}

Templates == {"../../sub-{subject}/figures", "../sub-{subject}/figures"}
DefaultTemplate == "../../sub-{subject}/figures"
PageSizes == {None} \cup {IntV(n) : n \in 1..MaxPage}

\* sorted(fmriprep_output_path.glob('**/sub-*.html'))
RECURSIVE Sorted(_)
Sorted(S) ==
  IF S = {} THEN <<>>
  ELSE LET m == CHOOSE x \in S : \A y \in S : x.rank <= y.rank
       IN <<m>> \o Sorted(S \ {m})

\* Faulty variant of ReportPaths: the paths are not in ascending order.
ReportPathsUnsorted == Reverse(Sorted(DOMAIN disk))

ReportPaths == Sorted(DOMAIN disk)

\* path_to_figures.format(subject=subject)
Format(template, subject) == <<template, subject>>

\* Lines 171-172 on the entry group/sub-<id>/figures: symlink_to raises when
\* the path exists already.
SymlinkTo(entry, target) ==
  IF entry # NoLink THEN Raise("FileExistsError") ELSE Return(target)
\* Faulty variant of LinkFigures: no is_symlink() test before symlink_to.
LinkFiguresUnguarded(entry, target) == SymlinkTo(entry, target)

LinkFigures(entry, target) ==
  IF entry = NoLink THEN SymlinkTo(entry, target) ELSE Return(entry)

\* Faulty variant of LoopDone: the merging and writing start after the first path.
LoopDoneAfterFirst == ri >= 1 \/ ri = Len(ReportPaths)

\* Line 161: the loop over report_paths has ended.
LoopDone == ri = Len(ReportPaths)

\* Line 174: pd.concat(reports).reset_index(drop=True)
PdConcat(dfs) ==
  IF dfs = <<>> THEN Raise("ValueError") ELSE Return(DataFrame(Concat(dfs)))

\* The strings that occur as report types, as sorting orders them.
TypeOrder == <<"MNI", "brain", "dseg">>
\* groupby('report_type'): the non-null keys, sorted
GroupKeys(df) ==
  SelectSeq(TypeOrder, LAMBDA t : \E j \in DOMAIN df : PyEq(df[j]["report_type"], StrV(t)))

\* Faulty variant of ChunkOf: the page is computed from a one-based index.
ChunkOfOneBased(idx, per_page) ==
  IF per_page = None THEN 0 ELSE (idx + 1) \div per_page.v

\* Lines 180-183
ChunkOf(idx, per_page) == IF per_page = None THEN 0 ELSE idx \div per_page.v

\* Lines 178-183: the group's table with its idx and chunk columns.
Rtdf(df, t, per_page) ==
  LET rows == SelectSeq(df, LAMBDA r : PyEq(r["report_type"], StrV(t)))
  IN [j \in DOMAIN rows |->
        Put(Put(rows[j], "idx", IntV(j - 1)), "chunk", IntV(ChunkOf(j - 1, per_page)))]

\* groupby('chunk') of one group's table: the chunks present, ascending.
ChunkGroups(t, rtdf) ==
  LET cs == {rtdf[j]["chunk"].v : j \in DOMAIN rtdf}
      Max == CHOOSE c \in cs : \A x \in cs : x <= c
      all == [c \in 1..(Max + 1) |->
                [report_type |-> t, chunk |-> c - 1,
                 rows |-> SelectSeq(rtdf, LAMBDA r : r["chunk"].v = c - 1)]]
  IN SelectSeq(all, LAMBDA g : g.rows # <<>>)

\* Lines 177-184: the (report_type, chunk) groups in the order they are written.
Groups(df, per_page) ==
  Concat([k \in DOMAIN GroupKeys(df) |->
            ChunkGroups(GroupKeys(df)[k], Rtdf(df, GroupKeys(df)[k], per_page))])

\* Faulty variant of ConsolidatedPath: the chunk is not part of the file name.
ConsolidatedPathNoChunk(report_type, chunk) == <<"consolidated", report_type, 0>>

\* Line 185: consolidated_<report_type>_<chunk:03d>.html
ConsolidatedPath(report_type, chunk) == <<"consolidated", report_type, chunk>>

IdleParse ==
  /\ doc = <<>> /\ fdi = 0 /\ prev_run_title = NaN
  /\ report_elements = <<>> /\ ppc = "idle" /\ parsed = <<>>

\* A fresh output root holding some subject reports.
Init ==
  /\ IdleParse
  /\ \E S \in SUBSET SubjectReports, F \in SUBSET {Sub01FiguresHtml} :
       \E d \in [S -> UNION {ReportDocs(sub) : sub \in Subjects}] :
         /\ \A p \in S : d[p] \in ReportDocs(p.subject)
         /\ disk = [p \in S \cup F |-> IF p \in S THEN d[p] ELSE <<>>]
  /\ links = [sub \in Subjects |-> NoLink]
  /\ files = <<>>
  /\ reports_per_page \in PageSizes
  /\ path_to_figures = DefaultTemplate
  /\ pc = "loop"
  /\ ri = 0
  /\ reports = <<>>
  /\ todo = <<>>
  /\ written = <<>>
  /\ err = NoErr

\* Lines 161-172: one iteration of the loop over report_paths.
ProcessReport ==
  /\ pc = "loop"
  /\ ~LoopDone
  /\ LET report_path == ReportPaths[ri + 1]
         r == ParseReport(disk[report_path])
         subject == report_path.subject
         l == LinkFigures(links[subject], Format(path_to_figures, subject))
     IN IF report_path.figures
          THEN /\ ri' = ri + 1
               /\ UNCHANGED <<reports, links, pc, err>>
        ELSE IF r.raised
          THEN /\ pc' = "raised"
               /\ err' = r.exc
               /\ UNCHANGED <<reports, links, ri>>
        ELSE IF l.raised
          THEN /\ pc' = "raised"
               /\ err' = l.exc
               /\ reports' = Append(reports, r.value)
               /\ UNCHANGED <<links, ri>>
        ELSE /\ reports' = Append(reports, r.value)
             /\ links' = [links EXCEPT ![subject] = l.value]
             /\ ri' = ri + 1
             /\ UNCHANGED <<pc, err>>
  /\ UNCHANGED <<disk, files, reports_per_page, path_to_figures, todo, written>>
  /\ UNCHANGED pvars

\* Lines 174-184: the merged table and its groups, once the loop has ended.
ConcatReports ==
  /\ pc = "loop"
  /\ LoopDone
  /\ LET m == PdConcat(reports)
     IN IF m.raised
          THEN /\ pc' = "raised"
               /\ err' = m.exc
               /\ UNCHANGED todo
          ELSE /\ pc' = "write"
               /\ todo' = Groups(m.value, reports_per_page)
               /\ UNCHANGED err
  /\ UNCHANGED <<disk, links, files, reports_per_page, path_to_figures, ri,
                 reports, written>>
  /\ UNCHANGED pvars

\* Lines 185-193: one consolidated file.
WriteConsolidated ==
  /\ pc = "write"
  /\ todo # <<>>
  /\ LET g == Head(todo)
         consolidated_path == ConsolidatedPath(g.report_type, g.chunk)
         lines == [k \in DOMAIN g.rows |-> MakeReportSnippet(g.rows[k])]
     IN /\ files' = [f \in (DOMAIN files) \cup {consolidated_path} |->
                       IF f = consolidated_path THEN lines ELSE files[f]]
        /\ written' = Append(written, consolidated_path)
  /\ todo' = Tail(todo)
  /\ UNCHANGED <<disk, links, reports_per_page, path_to_figures, pc, ri, reports, err>>
  /\ UNCHANGED pvars

\* make_report returns.
Finish ==
  /\ pc = "write"
  /\ todo = <<>>
  /\ pc' = "done"
  /\ UNCHANGED <<disk, links, files, reports_per_page, path_to_figures, ri,
                 reports, todo, written, err>>
  /\ UNCHANGED pvars

\* make_report is run again on the same output root (lines 155-160), with
\* either path template and the same page size; the reports, the symlinks
\* and the consolidated files of the earlier runs are still there.
RunAgain ==
  /\ pc \in {"done", "raised"}
  /\ path_to_figures' \in Templates
  /\ pc' = "loop"
  /\ ri' = 0
  /\ reports' = <<>>
  /\ todo' = <<>>
  /\ written' = <<>>
  /\ err' = NoErr
  /\ UNCHANGED <<disk, links, files, reports_per_page>>
  /\ UNCHANGED pvars

Next == ProcessReport \/ ConcatReports \/ WriteConsolidated \/ Finish \/ RunAgain

Spec == Init /\ [][Next]_vars

(***************************************************************************)
(* Claims about make_report and _make_report_snippet (Spec).               *)
(***************************************************************************)
\* The subject reports under the output root in sorted path order, and the
\* figure files they show, report after report, each in document order.
DiscoveredReports == SelectSeq(<<Sub01Html, Sub02Html>>, LAMBDA p : p \in DOMAIN disk)
ExpectedFiles ==
  Concat([k \in DOMAIN DiscoveredReports |->
            [j \in DOMAIN disk[DiscoveredReports[k]] |->
               FileOf(disk[DiscoveredReports[k]][j])]])
ExpectedOfType(t) == SelectSeq(ExpectedFiles, LAMBDA f : ChainOf(f) = StrV(t))
ReportTypes == {"brain", "dseg", "MNI"}

\* The files the current run has written for a report type, in the order
\* written, and their snippets one file after the other.
WrittenFor(t) == SelectSeq(written, LAMBDA f : f[2] = t)
SnippetsFor(t) == Concat([k \in DOMAIN WrittenFor(t) |-> files[WrittenFor(t)[k]]])
WrittenSet == {written[k] : k \in DOMAIN written}

\* C5: the records of each report_type group appear in the consolidated
\* output report after report in sorted report-path order, within a report in
\* document order, and the idx values of a group of N records are 0..N-1 in
\* that order.
C5_GroupOrderAndIdx ==
  pc = "done" =>
    \A t \in ReportTypes :
      /\ Len(SnippetsFor(t)) = Len(ExpectedOfType(t))
      /\ \A k \in DOMAIN SnippetsFor(t) :
           /\ SnippetsFor(t)[k].data = StrV(FigPath(ExpectedOfType(t)[k]))
           /\ SnippetsFor(t)[k].idx = IntV(k - 1)

\* C5 witness: two subjects with two figures of the same type each have given
\* four snippets of that type.
C5_Witness ==
  /\ pc = "done"
  /\ \E t \in ReportTypes :
       /\ Len(SnippetsFor(t)) = 4
       /\ \A sub \in Subjects :
            Cardinality({k \in 1..4 : SnippetsFor(t)[k].subj_qc["subject"] = StrV(sub)}) = 2

\* The number of pages of a group of n records.
PagesOf(n) ==
  IF n = 0 THEN 0
  ELSE IF reports_per_page = None THEN 1
  ELSE (n + reports_per_page.v - 1) \div reports_per_page.v

\* C6: in a group of N records with page size P >= 1 each record's chunk is
\* idx div P, the chunks are exactly 0..ceil(N/P)-1, each but the last holds P
\* records and the last holds N - P*(ceil(N/P)-1); with no page size every
\* record of the group is in the single chunk 0.
C6_Pagination ==
  pc = "done" =>
    \A t \in ReportTypes :
      LET N == Len(ExpectedOfType(t))
          last == PagesOf(N) - 1
      IN /\ {f \in WrittenSet : f[2] = t} =
              {ConsolidatedPath(t, c) : c \in 0..last}
         /\ \A c \in 0..last :
              LET page == files[ConsolidatedPath(t, c)]
              IN /\ Len(page) = IF reports_per_page = None THEN N
                                ELSE IF c < last THEN reports_per_page.v
                                ELSE N - reports_per_page.v * last
                 /\ \A k \in DOMAIN page :
                      /\ page[k].subj_qc["chunk"] = IntV(c)
                      /\ reports_per_page # None =>
                           c = page[k].idx.v \div reports_per_page.v

\* C6 witness: a group whose last page is shorter than the page size.
C6_Witness ==
  /\ pc = "done"
  /\ reports_per_page # None
  /\ \E t \in ReportTypes :
       /\ Len(ExpectedOfType(t)) > reports_per_page.v
       /\ Len(ExpectedOfType(t)) % reports_per_page.v # 0
       /\ ConsolidatedPath(t, 1) \in WrittenSet

\* C7: a run on an output root where a subject's 'figures' symlink exists
\* does not raise at the symlink and leaves the symlink's target as it is,
\* also when the run is given another path_to_figures; after a run every
\* subject with a report has its symlink.
C7_SymlinksKept ==
  /\ [][/\ \A sub \in Subjects : links[sub] # NoLink => links'[sub] = links[sub]
        /\ err' # "FileExistsError"]_vars
  /\ [](pc = "done" =>
          \A k \in DOMAIN DiscoveredReports : links[DiscoveredReports[k].subject] # NoLink)

\* C7 witness: a second run with another template has gone through the
\* symlink step of a subject whose symlink the first run made.
C7_Witness ==
  /\ pc = "done"
  /\ path_to_figures # DefaultTemplate
  /\ Sub01Html \in DOMAIN disk
  /\ links["01"] = Format(DefaultTemplate, "01")

\* The rows behind the files the current run has written, file by file.
RenderedGroups ==
  IF pc \in {"write", "done"}
    THEN SelectSeq(Groups(PdConcat(reports).value, reports_per_page),
                   LAMBDA g : ConsolidatedPath(g.report_type, g.chunk) \in WrittenSet)
    ELSE <<>>
SmallExclusion == {"path", "run_title", "elem_caption", "extension", "filename"}
LargeExclusion == SmallExclusion \cup {"desc", "report_type", "idx", "chunk"}
\* The snippet's view holds the row's fields outside excl (without the null
\* ones when nonnull), and the fields of extra.
IsViewOf(view, row, excl, nonnull, extra) ==
  LET keep == {c \in (DOMAIN row) \ excl : ~nonnull \/ NotNull(row[c])}
  IN /\ DOMAIN view = keep \cup DOMAIN extra
     /\ \A c \in keep : view[c] = row[c]
     /\ \A c \in DOMAIN extra : view[c] = extra[c]
SeenFlag == [been_on_screen |-> BoolV(FALSE)]

\* C8 as stated: the header is built from the record's non-null fields
\* outside path, run_title, elem_caption, extension and filename; the JSON
\* record from the fields outside the larger set (also without desc,
\* report_type, idx and chunk), plus a flag set to false.
C8_ViewsAsStated ==
  \A n \in DOMAIN RenderedGroups :
    LET g == RenderedGroups[n]
        page == files[ConsolidatedPath(g.report_type, g.chunk)]
    IN \A k \in DOMAIN g.rows :
         /\ IsViewOf(page[k].header, g.rows[k], SmallExclusion, TRUE, EmptyDict)
         /\ IsViewOf(page[k].subj_qc, g.rows[k], LargeExclusion, FALSE, SeenFlag)

\* C8 amended: the header is built from the record's non-null fields outside
\* the larger set (path, run_title, elem_caption, extension, filename, desc,
\* report_type, idx, chunk); the JSON record from all the fields outside
\* path, run_title, elem_caption, extension and filename, plus the flag
\* been_on_screen set to false.
C8_ViewsAmended ==
  \A n \in DOMAIN RenderedGroups :
    LET g == RenderedGroups[n]
        page == files[ConsolidatedPath(g.report_type, g.chunk)]
    IN \A k \in DOMAIN g.rows :
         /\ IsViewOf(page[k].header, g.rows[k], LargeExclusion, TRUE, EmptyDict)
         /\ IsViewOf(page[k].subj_qc, g.rows[k], SmallExclusion, FALSE, SeenFlag)

\* C8 witness: a written snippet whose JSON record holds idx, report_type and
\* a null field, and whose header holds none of them.
C8_Witness ==
  \E f \in WrittenSet : \E k \in DOMAIN files[f] :
    LET sn == files[f][k]
    IN /\ {"idx", "report_type", "space"} \subseteq DOMAIN sn.subj_qc
       /\ IsNull(sn.subj_qc["space"])
       /\ {"idx", "report_type", "space"} \cap DOMAIN sn.header = {}
       /\ "subject" \in DOMAIN sn.header

\* C9: no consolidated file is written before every discovered report has
\* been parsed and its symlink step is done; a run that raises, in parsing a
\* report or elsewhere before the writing, has written no consolidated file.
C9_NoWriteBeforeAllParsed ==
  /\ written # <<>> =>
       /\ Len(reports) = Len(DiscoveredReports)
       /\ \A k \in DOMAIN DiscoveredReports : links[DiscoveredReports[k].subject] # NoLink
  /\ pc = "raised" => written = <<>>

\* C9 witness: the parsing of a report raised after an earlier report had
\* been parsed and linked.
C9_Witness ==
  /\ pc = "raised"
  /\ err = "AttributeError"
  /\ Len(reports) = 1
  /\ links["01"] # NoLink
  /\ written = <<>>

\* Where the current run has rendered the figure file f: <<file, position>>.
RenderedAt(f) ==
  {<<n, k>> \in WrittenSet \X (1..Len(ExpectedFiles)) :
     k \in DOMAIN files[n] /\ files[n][k].data = StrV(FigPath(f))}

\* C10: after a successful run every merged record with a report_type is
\* rendered as one snippet in one consolidated file, the file named for its
\* (report_type, chunk); a record without report_type is rendered in no file;
\* no file is written without snippets.
C10_EveryTypedRecordOnce ==
  pc = "done" =>
    /\ \A j \in DOMAIN ExpectedFiles :
         LET f == ExpectedFiles[j]
         IN IF ChainOf(f) = NaN THEN RenderedAt(f) = {}
            ELSE /\ Cardinality(RenderedAt(f)) = 1
                 /\ \A x \in RenderedAt(f) :
                      x[1] = ConsolidatedPath(ChainOf(f).v,
                                              files[x[1]][x[2]].subj_qc["chunk"].v)
    /\ \A n \in WrittenSet : files[n] # <<>>
    /\ Cardinality(WrittenSet) = Len(written)

\* C10 witness: a successful run with a record without report_type and
\* records rendered in several files.
C10_Witness ==
  /\ pc = "done"
  /\ \E j \in DOMAIN ExpectedFiles : ChainOf(ExpectedFiles[j]) = NaN
  /\ Len(written) >= 3

====
